---- MODULE Spec2Model ----
(***************************************************************************)
(* Brand-protection analyst agent: the orchestrator                        *)
(* (BrandProtectionAgent.analyze_domains), the batched and retried LLM     *)
(* client (GeminiAnalyzer.analyze_domains, _parse_response) and the        *)
(* results processor (ResultsProcessor.process_results).                   *)
(*                                                                         *)
(* Python strings are sequences of one-character strings, so that lower(), *)
(* strip() and the substring test `in` are computed, not assumed.  None is *)
(* the one-element sequence <<"<None>">>, which no string equals.          *)
(* Floats that the code only stores and compares with literals are kept    *)
(* in hundredths (0.95 is 95); sleeps are in whole seconds, a jitter drawn *)
(* from [0, n) being a whole number of seconds below n.                    *)
(***************************************************************************)
EXTENDS Integers, Sequences, FiniteSets, TLC

(* ------------------------------ bounds -------------------------------- *)

\* Lines of the input file.
MaxLines == 2
\* Domains handed to ResultsProcessor.process_results in a direct call.
MaxProcessed == 5
\* Entries of the "threats" array of a response.
MaxThreats == 1

(* ------------------------------ strings ------------------------------- *)

None == <<"<None>">>

S_503 == <<"5","0","3">>
S_overloaded == <<"o","v","e","r","l","o","a","d","e","d">>
S_unavailable == <<"u","n","a","v","a","i","l","a","b","l","e">>
S_NoThreat == <<"N","o"," ","t","h","r","e","a","t"," ","d","e","t","e","c","t","e","d">>
S_PotentialThreat == <<"P","o","t","e","n","t","i","a","l"," ","t","h","r","e","a","t">>
S_Unavailable == <<"L","L","M"," ","e","v","a","l","u","a","t","i","o","n"," ","u","n","a","v","a","i","l","a","b","l","e">>
S_ApiOverloadedAfter == <<"A","P","I"," ","o","v","e","r","l","o","a","d","e","d"," ","a","f","t","e","r"," ">>
S_Retries == <<" ","r","e","t","r","i","e","s">>
S_ApiError == <<"A","P","I"," ","e","r","r","o","r",":"," ">>
S_low == <<"l","o","w">>
S_medium == <<"m","e","d","i","u","m">>
S_high == <<"h","i","g","h">>
S_Business == <<"B","u","s","i","n","e","s","s">>
S_NoneText == <<"N","o","n","e">>
S_ZeroPct == <<"0",".","0","%">>
\* The literal tail of the generated description, kept as one symbol.
S_DescriptionTail == <<" is a company that users want to protect from domain impersonation and cybersquatting.">>

UpperCase == <<"A","B","C","D","E","F","G","H","I","J","K","L","M",
               "N","O","P","Q","R","S","T","U","V","W","X","Y","Z">>
LowerCase == <<"a","b","c","d","e","f","g","h","i","j","k","l","m",
               "n","o","p","q","r","s","t","u","v","w","x","y","z">>

Range(s) == {s[k] : k \in DOMAIN s}

\* str.lower() of one character.
LowerChar(c) ==
    IF \E k \in 1..26 : UpperCase[k] = c
    THEN LowerCase[CHOOSE k \in 1..26 : UpperCase[k] = c]
    ELSE c

\* str.upper() of one character.
UpperChar(c) ==
    IF \E k \in 1..26 : LowerCase[k] = c
    THEN UpperCase[CHOOSE k \in 1..26 : LowerCase[k] = c]
    ELSE c

Lower(s) == [k \in 1..Len(s) |-> LowerChar(s[k])]

Upper(s) == [k \in 1..Len(s) |-> UpperChar(s[k])]

\* Python's `needle in hay` on strings.
Contains(hay, needle) ==
    \E k \in 0..(Len(hay) - Len(needle)) :
        SubSeq(hay, k + 1, k + Len(needle)) = needle

IsSpace(c) == c \in {" ", "\t", "\n"}

\* str.strip().
Strip(s) ==
    IF \A k \in 1..Len(s) : IsSpace(s[k])
    THEN <<>>
    ELSE LET first == CHOOSE k \in 1..Len(s) :
                          ~IsSpace(s[k]) /\ \A j \in 1..(k - 1) : IsSpace(s[j])
             last == CHOOSE k \in 1..Len(s) :
                          ~IsSpace(s[k]) /\ \A j \in (k + 1)..Len(s) : IsSpace(s[j])
         IN SubSeq(s, first, last)

\* Python truthiness of an optional string: neither None nor "".
Truthy(s) == s # None /\ s # <<>>

\* str() of an optional string, as an f-string interpolates it.
Str(s) == IF s = None THEN S_NoneText ELSE s

Digit(n) == <<"0","1","2","3","4","5","6","7","8","9">>[n + 1]

\* str() of a natural number.
RECURSIVE StrNat(_)
StrNat(n) == IF n < 10 THEN <<Digit(n)>> ELSE StrNat(n \div 10) \o <<Digit(n % 10)>>

\* All sequences over S of length at most n.
RECURSIVE SeqsUpTo(_, _)
SeqsUpTo(S, n) ==
    IF n = 0 THEN {<<>>}
    ELSE LET shorter == SeqsUpTo(S, n - 1)
         IN shorter \cup {Append(s, x) : s \in {t \in shorter : Len(t) = n - 1}, x \in S}

(* --------------------------- agent/utils.py --------------------------- *)

\* The input file as the loader finds it: `direct` is the state of the given
\* path, `data` that of data/<basename>, each "missing", "ok" or "unreadable";
\* `lines` is the text of the file that gets read.
FileStates == {"missing", "ok", "unreadable"}

NormaliseLines(lines) ==
    LET kept == SelectSeq(lines, LAMBDA l : Strip(l) # <<>>)
    IN [k \in 1..Len(kept) |-> Lower(Strip(kept[k]))]

\* Mutant: the file is looked for at the given path only.
load_domains_DirectOnly(file) ==
    IF file.direct # "missing"
    THEN IF file.direct = "ok"
         THEN [raised |-> "", domains |-> NormaliseLines(file.lines)]
         ELSE [raised |-> "OSError", domains |-> <<>>]
    ELSE [raised |-> "FileNotFoundError", domains |-> <<>>]

\* DomainLoader.load_domains: the domains, or the exception it raises.
load_domains(file) ==
    IF file.direct # "missing"
    THEN IF file.direct = "ok"
         THEN [raised |-> "", domains |-> NormaliseLines(file.lines)]
         ELSE [raised |-> "OSError", domains |-> <<>>]
    ELSE IF file.data # "missing"
    THEN IF file.data = "ok"
         THEN [raised |-> "", domains |-> NormaliseLines(file.lines)]
         ELSE [raised |-> "OSError", domains |-> <<>>]
    ELSE [raised |-> "FileNotFoundError", domains |-> <<>>]

\* Mutant: the keyword is looked for as given.
filter_full_word_matches_KeywordAsGiven(domains, keyword) ==
    SelectSeq(domains, LAMBDA domain : Contains(domain, keyword))

\* DomainLoader.filter_full_word_matches.
filter_full_word_matches(domains, keyword) ==
    LET keyword_lower == Lower(keyword)
    IN SelectSeq(domains, LAMBDA domain : Contains(domain, keyword_lower))

\* BrandProtectionConfig._create_dynamic_brand_config.  The literal parts of
\* the four context notes are single symbols.
create_dynamic_brand_config(brand_name, company_name, industry, description) ==
    LET industry1 == IF Truthy(industry) THEN industry ELSE S_Business
        description1 == IF Truthy(description) THEN description
                        ELSE Str(company_name) \o S_DescriptionTail
        company1 == IF Truthy(company_name) THEN company_name ELSE brand_name
    IN [name |-> Upper(company1),
        industry |-> industry1,
        description |-> description1,
        context_notes |-> <<
            <<"Focus on domains that could confuse customers of ">> \o company1,
            <<"Consider domains that impersonate ">> \o brand_name \o <<" services">>,
            <<"Filter out domains where \"">> \o Lower(brand_name)
                \o <<"\" appears coincidentally">>,
            <<"Evaluate based on business context and customer confusion potential">> >>]

\* BrandProtectionConfig.get_brand_config: Optional[dict] as a sequence of
\* at most one config.
get_brand_config(brand_name, company_name, industry, description) ==
    IF Truthy(brand_name)
    THEN <<create_dynamic_brand_config(brand_name, company_name, industry, description)>>
    ELSE <<>>

\* dict.get(key, default) on a dict modelled as a function of its keys.
Get(dict, key, default) == IF key \in DOMAIN dict THEN dict[key] ELSE default

\* datetime.now().isoformat(): one instant, the same for the whole result.
Now == <<"n","o","w">>

\* Mutant: a domain without a verdict is taken for harmless.
DefaultVerdict_NotThreat ==
    [relevant |-> FALSE, confidence |-> 50, reason |-> S_Unavailable,
     risk_level |-> S_medium]

\* The verdict ResultsProcessor.process_results gives a domain that has none.
DefaultVerdict ==
    [relevant |-> TRUE, confidence |-> 50, reason |-> S_Unavailable,
     risk_level |-> S_medium]

\* The ThreatAnalysis process_results builds for one domain.
ThreatAnalysisOf(domain, llm_results) ==
    LET result == IF domain \in DOMAIN llm_results THEN llm_results[domain]
                  ELSE DefaultVerdict
    IN [domain |-> domain,
        is_threat |-> Get(result, "relevant", TRUE),
        confidence |-> Get(result, "confidence", 50),
        reason |-> Get(result, "reason", <<>>),
        risk_level |-> Get(result, "risk_level", S_medium),
        timestamp |-> Now]

\* Mutant: a domain without a verdict is skipped instead of defaulted.
RECURSIVE PartitionLoop_SkipsUnverdicted(_, _, _, _)
PartitionLoop_SkipsUnverdicted(domains, k, llm_results, acc) ==
    IF k > Len(domains) THEN acc
    ELSE LET threat_analysis == ThreatAnalysisOf(domains[k], llm_results)
         IN PartitionLoop_SkipsUnverdicted(domains, k + 1, llm_results,
                IF domains[k] \notin DOMAIN llm_results THEN acc
                ELSE IF threat_analysis.is_threat
                THEN <<Append(acc[1], threat_analysis), acc[2]>>
                ELSE <<acc[1], Append(acc[2], threat_analysis)>>)

\* Mutant: each analysis is put at the front of its partition.
RECURSIVE PartitionLoop_Prepends(_, _, _, _)
PartitionLoop_Prepends(domains, k, llm_results, acc) ==
    IF k > Len(domains) THEN acc
    ELSE LET threat_analysis == ThreatAnalysisOf(domains[k], llm_results)
         IN PartitionLoop_Prepends(domains, k + 1, llm_results,
                IF threat_analysis.is_threat
                THEN <<(<<threat_analysis>> \o acc[1]), acc[2]>>
                ELSE <<acc[1], (<<threat_analysis>> \o acc[2])>>)

\* The loop of process_results over domains[k..]: acc is <<threats, filtered>>.
RECURSIVE PartitionLoop(_, _, _, _)
PartitionLoop(domains, k, llm_results, acc) ==
    IF k > Len(domains) THEN acc
    ELSE LET threat_analysis == ThreatAnalysisOf(domains[k], llm_results)
         IN PartitionLoop(domains, k + 1, llm_results,
                IF threat_analysis.is_threat
                THEN <<Append(acc[1], threat_analysis), acc[2]>>
                ELSE <<acc[1], Append(acc[2], threat_analysis)>>)

\* Mutant: the tenths are cut off, not rounded.
FormatPct_Truncates(filtered_count, total) ==
    LET tenths == (filtered_count * 1000) \div total
    IN StrNat(tenths \div 10) \o <<".">> \o <<Digit(tenths % 10)>> \o <<"%">>

\* f"{filtered / total * 100:.1f}%": tenths rounded half to even, then
\* printed.  (No total of the sizes modelled yields an exact tie, where
\* binary floating point could differ.)
FormatPct(filtered_count, total) ==
    LET q == (filtered_count * 1000) \div total
        r == (filtered_count * 1000) % total
        tenths == IF 2 * r > total THEN q + 1
                  ELSE IF 2 * r < total THEN q
                  ELSE IF q % 2 = 0 THEN q ELSE q + 1
    IN StrNat(tenths \div 10) \o <<".">> \o <<Digit(tenths % 10)>> \o <<"%">>

\* ResultsProcessor.process_results.
process_results(domains, llm_results, brand_config, batch_size) ==
    LET parts == PartitionLoop(domains, 1, llm_results, << <<>>, <<>> >>)
        threats == parts[1]
        filtered == parts[2]
    IN [metadata |->
            [brand |-> brand_config.name,
             keyword |-> Lower(brand_config.name),
             total_domains |-> Len(domains),
             threat_count |-> Len(threats),
             filtered_count |-> Len(filtered),
             false_positive_reduction |->
                 IF domains # <<>> THEN FormatPct(Len(filtered), Len(domains))
                 ELSE S_ZeroPct,
             timestamp |-> Now,
             batch_size |-> batch_size],
        threats |-> threats,
        filtered |-> filtered]

(* --------------------------- agent/agent.py --------------------------- *)

\* GeminiAnalyzer.__init__: self.api_key = api_key or os.getenv(...).
ResolveApiKey(arg, env) == IF Truthy(arg) THEN arg ELSE env

\* Mutant: a blank key passes for a credential.
is_configured_NotNone(key) == key # None

\* GeminiAnalyzer.is_configured.
is_configured(key) == key # None /\ Strip(key) # <<>>

DefaultBatchSize == 200
max_retries == 3
base_wait == 15
\* random.uniform(0, 5) of the backoff and random.uniform(0, 3) of the pacing.
BackoffJitterSpan == 5
PacingJitterSpan == 3
\* The jitters drawn: the least and the greatest whole second of [0, span).
\* Every wait is monotone in its jitter, so the two bracket all the others.
Jitters(span) == {0, span - 1}

\* A batch_size argument: `int` tells whether it is a Python int.
\* GeminiAnalyzer.analyze_domains replaces an invalid one by the default.
EffectiveBatchSize(batch_size) ==
    IF ~batch_size.int \/ batch_size.val <= 0 THEN DefaultBatchSize
    ELSE batch_size.val

TotalBatches(n, size) == (n + size - 1) \div size

\* Mutant: every batch but the first starts one domain early.
BatchAt_StartsOneEarly(domains, i, size) ==
    SubSeq(domains, IF i = 0 THEN 1 ELSE i,
           IF i + size < Len(domains) THEN i + size ELSE Len(domains))

\* batch = domains[i:i + batch_size], i counted from 0.
BatchAt(domains, i, size) ==
    SubSeq(domains, i + 1, IF i + size < Len(domains) THEN i + size ELSE Len(domains))

BatchNum(i, size) == (i \div size) + 1

\* Mutant: "overloaded" and "unavailable" are looked for in the text as raised.
IsOverload_CaseSensitive(error_msg) ==
    \/ Contains(error_msg, S_503)
    \/ Contains(error_msg, S_overloaded)
    \/ Contains(error_msg, S_unavailable)

\* The test of the except branch for a transient overload.
IsOverload(error_msg) ==
    \/ Contains(error_msg, S_503)
    \/ Contains(Lower(error_msg), S_overloaded)
    \/ Contains(Lower(error_msg), S_unavailable)

RECURSIVE Pow2(_)
Pow2(k) == IF k = 0 THEN 1 ELSE 2 * Pow2(k - 1)

\* wait_time = base_wait * (2 ** attempt) + random.uniform(0, 5)
BackoffWait(attempt, jitter) == base_wait * Pow2(attempt) + jitter

\* Mutant: the last attempt, too, is followed by a backoff instead of the
\* fallback.
RetryAfterOverload_OffByOne(attempt) == attempt < max_retries

\* `if attempt < max_retries - 1`: an overload error is followed by a retry.
RetryAfterOverload(attempt) == attempt < max_retries - 1

\* wait_time = base_wait + random.uniform(0, 3)
PacingWait(jitter) == base_wait + jitter

\* Mutant: the last batch, too, is followed by a pacing sleep.
ShouldPace_AfterEveryBatch(batch_num, total) == batch_num <= total

\* `if batch_num < total_batches`: the pacing sleep after a batch.
ShouldPace(batch_num, total) == batch_num < total

OverloadFallback(domain) ==
    [domain |-> domain, relevant |-> TRUE, confidence |-> 50,
     reason |-> S_ApiOverloadedAfter \o StrNat(max_retries) \o S_Retries,
     risk_level |-> S_medium]

ErrorFallback(domain, error_msg) ==
    [domain |-> domain, relevant |-> TRUE, confidence |-> 50,
     reason |-> S_ApiError \o error_msg,
     risk_level |-> S_medium]

\* `for domain in batch: results[domain] = {...}` of the two except branches.
OverloadFallbacks(domains) == [d \in Range(domains) |-> OverloadFallback(d)]

ErrorFallbacks(domains, error_msg) ==
    [d \in Range(domains) |-> ErrorFallback(d, error_msg)]

EmptyDict == [d \in {} |-> 0]

\* Mutant: a domain that has a verdict keeps it.
Merge_KeepsFirst(results, batch_results) ==
    [d \in DOMAIN results \cup DOMAIN batch_results |->
        IF d \in DOMAIN results THEN results[d] ELSE batch_results[d]]

\* `for domain, result in batch_results.items(): results[domain] = result`
Merge(results, batch_results) ==
    [d \in DOMAIN results \cup DOMAIN batch_results |->
        IF d \in DOMAIN batch_results THEN batch_results[d] ELSE results[d]]

NoThreatVerdict(domain) ==
    [domain |-> domain, relevant |-> FALSE, confidence |-> 95,
     reason |-> S_NoThreat, risk_level |-> S_low]

ThreatVerdict(domain, threat) ==
    [domain |-> domain, relevant |-> TRUE,
     confidence |-> Get(threat, "confidence", 80),
     reason |-> Get(threat, "reason", S_PotentialThreat),
     risk_level |-> Lower(Get(threat, "risk_level", S_medium))]

\* An entry of "threats" whose handling raises inside _parse_response: an
\* entry that is no JSON object (.get fails), or one of a batch domain whose
\* risk_level is null (.lower() fails).
ThreatRaises(threat, batch_domains) ==
    \/ "nondict" \in DOMAIN threat
    \/ /\ Get(threat, "domain", None) \in Range(batch_domains)
       /\ Get(threat, "risk_level", S_medium) = None

\* Mutant: every named domain is given a threat verdict, in the batch or not.
RECURSIVE MarkThreats_AnyDomain(_, _, _)
MarkThreats_AnyDomain(results, threats, batch_domains) ==
    IF threats = <<>> THEN results
    ELSE LET threat == Head(threats)
             domain == Get(threat, "domain", None)
         IN MarkThreats_AnyDomain(
                [d \in DOMAIN results \cup {domain} |->
                    IF d = domain THEN ThreatVerdict(domain, threat) ELSE results[d]],
                Tail(threats), batch_domains)

\* `for threat in threats: ...` of _parse_response.
RECURSIVE MarkThreats(_, _, _)
MarkThreats(results, threats, batch_domains) ==
    IF threats = <<>> THEN results
    ELSE LET threat == Head(threats)
             domain == Get(threat, "domain", None)
         IN MarkThreats(
                IF domain \in Range(batch_domains)
                THEN [results EXCEPT ![domain] = ThreatVerdict(domain, threat)]
                ELSE results,
                Tail(threats), batch_domains)

\* Mutant: a text that json.loads rejects clears every domain of the batch.
parse_response_ClearsOnBadJson(response, batch_domains) ==
    IF response.form = "nojson" THEN EmptyDict
    ELSE IF response.form = "badjson"
    THEN [d \in Range(batch_domains) |-> NoThreatVerdict(d)]
    ELSE LET threats == Get(response.data, "threats", <<>>)
         IN IF \E k \in 1..Len(threats) : ThreatRaises(threats[k], batch_domains)
            THEN EmptyDict
            ELSE MarkThreats([d \in Range(batch_domains) |-> NoThreatVerdict(d)],
                             threats, batch_domains)

\* GeminiAnalyzer._parse_response.  A response text is "nojson" (no
\* brace-delimited substring), "badjson" (json.loads fails) or "json", with
\* the parsed object in `data`.
parse_response(response, batch_domains) ==
    IF response.form = "nojson" THEN EmptyDict
    ELSE IF response.form = "badjson" THEN EmptyDict
    ELSE LET threats == Get(response.data, "threats", <<>>)
         IN IF \E k \in 1..Len(threats) : ThreatRaises(threats[k], batch_domains)
            THEN EmptyDict
            ELSE MarkThreats([d \in Range(batch_domains) |-> NoThreatVerdict(d)],
                             threats, batch_domains)

(* ------------------------------ inputs -------------------------------- *)

ApiKeyArgs == {None, <<" ">>, <<"k">>}
EnvKeys == {None, <<"k">>}

\* Raw lines of the input file: a mixed-case domain with trailing blank, a
\* second matching domain, a domain without the keyword, a blank line.
Lines == {<<"T","u","i"," ">>, <<"t","u","i","x">>, <<"a","b">>, <<" ">>}
FileContents == SeqsUpTo(Lines, MaxLines)

DomainFiles ==
    [direct : {"ok", "unreadable"}, data : {"missing"}]
        \cup [direct : {"missing"}, data : FileStates]

BrandNames == {None, <<>>, <<"T","u","i">>}
CompanyNames == {None, <<"A","b">>}
Industries == {None}
Descriptions == {None}
OutputPaths == {None, <<"o">>}
BatchSizes ==
    {[int |-> FALSE, val |-> 0]} \cup {[int |-> TRUE, val |-> v] : v \in -1..2}

\* str(e) of the exceptions the generation request raises.
ErrorMessages ==
    {<<"5","0","3">>,
     <<"O","v","e","r","l","o","a","d","e","d">>,
     <<"U","N","A","V","A","I","L","A","B","L","E">>,
     <<"5","0","4"," ","o","v","e","r","l","o","a","d">>}

\* Entries of a response's "threats" array.
ThreatEntries ==
    {[domain |-> d] : d \in {<<"t","u","i">>, <<"z","z">>}}
        \cup {[domain |-> <<"t","u","i">>, confidence |-> 90, reason |-> <<"r">>,
               risk_level |-> <<"H","i","g","h">>],
              [domain |-> <<"t","u","i","x">>,
               risk_level |-> <<"C","r","i","t","i","c","a","l">>],
              [nondict |-> TRUE],
              [domain |-> <<"t","u","i","x">>, risk_level |-> None]}

\* Response texts whose "threats" array has at most n entries.
TextsUpTo(n) ==
    {[form |-> "nojson"], [form |-> "badjson"], [form |-> "json", data |-> [other |-> 0]]}
        \cup {[form |-> "json", data |-> [threats |-> t]] :
                 t \in SeqsUpTo(ThreatEntries, n)}

\* response.text when it is truthy.
ResponseTexts == TextsUpTo(MaxThreats)

\* response.usage_metadata: absent (<<>>) or carrying the three token counts.
\* (A count that is None makes `+=` raise inside the try: one more of the
\* errors of ErrorMessages.)
Usages ==
    {<<>>,
     <<[prompt_token_count |-> 3, candidates_token_count |-> 2, total_token_count |-> 5]>>}

\* The domains of a direct call of GeminiAnalyzer.analyze_domains.
ClientDomains == SeqsUpTo({<<"t","u","i">>}, MaxLines)

\* The arguments of a direct call of DomainLoader.filter_full_word_matches:
\* domains in lower, upper and mixed case, keywords likewise.
FilterDomains ==
    SeqsUpTo({<<"t","u","i">>, <<"x","T","U","I">>, <<"a","b">>}, MaxLines)
FilterKeywords == {<<"t","u","i">>, <<"T","u","i">>, <<"b","a">>}

\* The texts and the batches of a direct call of GeminiAnalyzer._parse_response.
ParsedTexts == TextsUpTo(MaxThreats + 1)
ParsedBatches == SeqsUpTo({<<"t","u","i">>, <<"t","u","i","x">>}, MaxLines)

\* The arguments of a direct call of BrandProtectionConfig.get_brand_config.
ConfigCompanyNames == {None, <<>>, <<"A","b">>}
ConfigIndustries == {None, <<>>, <<"F","i","n">>}
ConfigDescriptions == {None, <<"d">>}

\* The arguments of a direct call of ResultsProcessor.process_results: a
\* domain the mapping clears, one it has no verdict for, and mappings whose
\* verdicts lack keys.
ProcessedDomains == SeqsUpTo({<<"a">>, <<"b">>}, MaxProcessed)
ProcessedResults ==
    {EmptyDict,
     [d \in {<<"a">>} |-> NoThreatVerdict(d)],
     [d \in {<<"a">>} |-> [relevant |-> FALSE]]}

(* ------------------- what the service answered ------------------------ *)

\* Whether the text of a raised error indicates a transient overload: it
\* holds "503", "overloaded" or "unavailable", in any letter case.
OverloadIndicating(error_msg) ==
    \E needle \in {S_503, S_overloaded, S_unavailable} :
        Contains(Lower(error_msg), needle)

\* The domains a response names in its "threats" array.
Named(text) ==
    IF text.form = "json" /\ "threats" \in DOMAIN text.data
    THEN {Get(text.data.threats[k], "domain", None) :
             k \in 1..Len(text.data.threats)}
    ELSE {}

\* The class of a response text for a batch: "nojson", "badjson", "badshape"
\* (a JSON object whose handling raises) or "json" (parsed).
TextClass(text, batch_domains) ==
    IF text.form # "json" THEN text.form
    ELSE IF "threats" \in DOMAIN text.data
            /\ \E k \in 1..Len(text.data.threats) :
                   ThreatRaises(text.data.threats[k], batch_domains)
    THEN "badshape"
    ELSE "json"

\* An entry of the trace: the class of what an attempt met and, for an error
\* that indicates no overload, its text.  The entry of a response with text
\* also has `named`, the domains of the batch that the response names.
Met(class, text) == [class |-> class, text |-> text]

Last(s) == s[Len(s)]

(* ------------------------------- state -------------------------------- *)

VARIABLES
    api_key,           \* GeminiAnalyzer.api_key
    pc,                \* "idle", "attempt", "batch_end", "finish", "returned", "raised"
    args,              \* the arguments of the running call, <<>> before it
    brand_config,      \* Optional[dict] of the orchestrator
    keyword,
    relevant_domains,
    size,              \* batch_size as the LLM client rebinds it
    total_batches,
    i,                 \* start of the current batch, from 0
    attempt,           \* index of the next attempt of the current batch
    results,           \* the accumulating verdict mapping
    returned,          \* <<result>> once the call has returned
    raised,            \* the exception the call raised, "" if none
    \* history
    trace,             \* what each attempt of the current batch met
    slept,             \* the backoff sleeps of the current batch; after it,
                       \* the pacing sleep that followed it, if any
    batches,           \* the batches taken up so far, in order
    paced,             \* the batch numbers a pacing sleep followed
    results_before,    \* `results` when the current batch began
    parsed,            \* domains of batches whose response was parsed
    cleared,           \* domains a parsed response of their batch did not name
    malformed,         \* domains of batches whose response held no valid JSON
    failed,            \* domains of batches that ended without a parsed response
    requests,          \* generation requests issued so far
    token_counters,    \* total_input_tokens, total_output_tokens, total_tokens_used
    called             \* the collaborators the running call has called so far

vars == <<api_key, pc, args, brand_config, keyword, relevant_domains, size,
          total_batches, i, attempt, results, returned, raised, trace, slept,
          batches, paced, results_before, parsed, cleared, malformed, failed,
          requests, token_counters, called>>

meters == <<requests, token_counters>>

history == <<parsed, cleared, malformed, failed>>

locals == <<brand_config, keyword, relevant_domains, size, total_batches>>

Init ==
    /\ \E arg \in ApiKeyArgs, env \in EnvKeys : api_key = ResolveApiKey(arg, env)
    /\ pc = "idle"
    /\ args = <<>>
    /\ brand_config = <<>>
    /\ keyword = None
    /\ relevant_domains = <<>>
    /\ size = 0
    /\ total_batches = 0
    /\ i = 0
    /\ attempt = 0
    /\ results = EmptyDict
    /\ returned = <<>>
    /\ raised = ""
    /\ trace = <<>>
    /\ slept = <<>>
    /\ batches = <<>>
    /\ paced = <<>>
    /\ results_before = EmptyDict
    /\ parsed = {}
    /\ cleared = {}
    /\ malformed = {}
    /\ failed = {}
    /\ requests = 0
    /\ token_counters = [input |-> 0, output |-> 0, total |-> 0]
    /\ called = {}

\* The current batch of the LLM client's outer loop.
batch == BatchAt(relevant_domains, i, size)

batch_num == BatchNum(i, size)

Raise(exception) ==
    /\ pc' = "raised"
    /\ raised' = exception
    /\ UNCHANGED <<api_key, returned, i, attempt, results, trace, slept, batches,
                   paced, results_before, history, meters>>

\* The short-circuit result of the orchestrator.
EmptyResult(config, kw, batch_size) ==
    [metadata |->
        [brand |-> config.name, keyword |-> kw, total_domains |-> 0,
         threat_count |-> 0, filtered_count |-> 0,
         false_positive_reduction |-> S_ZeroPct, timestamp |-> Now,
         batch_size |-> batch_size],
     threats |-> <<>>,
     filtered |-> <<>>]

\* Mutant: the orchestrator never short-circuits.
ShortCircuit_Never(domains) == FALSE

\* `if not relevant_domains`: the orchestrator's short circuit.
ShortCircuit(domains) == domains = <<>>

\* BrandProtectionAgent.analyze_domains up to the first generation request.
AgentAnalyzeDomains(domains_file, lines, brand_name, company_name, industry, description, output_path, batch_size) ==
    /\ pc = "idle"
    /\ args' = <<[domains_file |-> domains_file, brand_name |-> brand_name,
                  output_path |-> output_path, batch_size |-> batch_size]>>
    /\ LET config == get_brand_config(brand_name, company_name, industry, description)
           kw == IF Truthy(brand_name) THEN brand_name ELSE Lower(config[1].name)
           loaded == load_domains([direct |-> domains_file.direct,
                                   data |-> domains_file.data, lines |-> lines])
           relevant == filter_full_word_matches(loaded.domains, kw)
           effective == EffectiveBatchSize(batch_size)
       IN IF ~is_configured(api_key)
          THEN /\ Raise("ValueError: GEMINI_API_KEY not found")
               /\ called' = {}
               /\ UNCHANGED locals
          ELSE IF config = <<>>
          THEN /\ Raise("ValueError: No valid brand configuration provided")
               /\ called' = {"get_brand_config"}
               /\ UNCHANGED locals
          ELSE IF loaded.raised # ""
          THEN /\ Raise(loaded.raised)
               /\ called' = {"get_brand_config", "load_domains"}
               /\ brand_config' = config
               /\ keyword' = kw
               /\ UNCHANGED <<relevant_domains, size, total_batches>>
          ELSE /\ brand_config' = config
               /\ keyword' = kw
               /\ relevant_domains' = relevant
               /\ IF ShortCircuit(relevant)
                  THEN /\ pc' = "returned"
                       /\ returned' = <<EmptyResult(config[1], kw, batch_size)>>
                       /\ called' = {"get_brand_config", "load_domains",
                                     "filter_full_word_matches"}
                       /\ UNCHANGED <<size, total_batches, batches>>
                  ELSE /\ called' = {"get_brand_config", "load_domains",
                                     "filter_full_word_matches",
                                     "GeminiAnalyzer.analyze_domains"}
                       /\ size' = effective
                       /\ total_batches' = TotalBatches(Len(relevant), effective)
                       /\ IF relevant = <<>>
                          THEN pc' = "finish" /\ UNCHANGED batches
                          ELSE /\ pc' = "attempt"
                               /\ batches' = <<BatchAt(relevant, 0, effective)>>
                       /\ UNCHANGED returned
               /\ UNCHANGED <<api_key, raised, i, attempt, results, trace, slept,
                              paced, results_before, history, meters>>

\* The end of the inner loop: the batch is over.
EndBatch == pc' = "batch_end" /\ UNCHANGED attempt

\* Mutant: the attempts of a batch are not bounded.
NextAttempt_Unbounded == pc' = "attempt" /\ attempt' = attempt + 1

\* The next iteration of `for attempt in range(max_retries)`, if there is one.
NextAttempt ==
    IF attempt + 1 < max_retries
    THEN pc' = "attempt" /\ attempt' = attempt + 1
    ELSE EndBatch

\* Mutant: the break after the fallback of a non-overload error is missing.
AfterOtherError_Retries == NextAttempt

\* The `break` that ends the except branch of a non-overload error.
AfterOtherError == EndBatch

\* An attempt whose response is None or has no text: nothing happens and the
\* loop goes on.
AttemptNoText ==
    /\ pc = "attempt"
    /\ trace' = Append(trace, Met("notext", <<>>))
    /\ NextAttempt
    /\ slept' = IF attempt = 0 THEN <<>> ELSE slept
    /\ requests' = requests + 1
    /\ UNCHANGED <<api_key, args, locals, i, results, returned, raised, batches,
                   paced, results_before, history, token_counters, called>>

\* An attempt that raises: the except branch.
AttemptRaises(error_msg) ==
    /\ pc = "attempt"
    /\ trace' = Append(trace, IF OverloadIndicating(error_msg)
                               THEN Met("overloaded", <<>>)
                               ELSE Met("failed", error_msg))
    /\ LET since == IF attempt = 0 THEN <<>> ELSE slept
       IN IF IsOverload(error_msg)
          THEN /\ IF RetryAfterOverload(attempt)
                  THEN /\ \E jitter \in Jitters(BackoffJitterSpan) :
                              slept' = Append(since,
                                  [kind |-> "backoff",
                                   seconds |-> BackoffWait(attempt, jitter)])
                       /\ UNCHANGED results
                  ELSE /\ results' = Merge(results, OverloadFallbacks(batch))
                       /\ slept' = since
               /\ NextAttempt
          ELSE /\ results' = Merge(results, ErrorFallbacks(batch, error_msg))
               /\ slept' = since
               /\ AfterOtherError
    /\ requests' = requests + 1
    /\ UNCHANGED <<api_key, args, locals, i, returned, raised, batches, paced,
                   results_before, history, token_counters, called>>

\* An attempt whose response carries text: count the tokens, parse, merge,
\* break.
AttemptText(text, usage) ==
    /\ pc = "attempt"
    /\ token_counters' =
           IF usage = <<>> THEN token_counters
           ELSE [input |-> token_counters.input + usage[1].prompt_token_count,
                 output |-> token_counters.output + usage[1].candidates_token_count,
                 total |-> token_counters.total + usage[1].total_token_count]
    /\ LET batch_results == parse_response(text, batch)
           class == TextClass(text, batch)
       IN /\ results' = Merge(results, batch_results)
          /\ trace' = Append(trace, [class |-> class, text |-> <<>>,
                                     named |-> Named(text) \cap Range(batch)])
          /\ parsed' = parsed \cup (IF class = "json" THEN Range(batch) ELSE {})
          /\ cleared' = cleared \cup
                 (IF class = "json" THEN Range(batch) \ Named(text) ELSE {})
          /\ malformed' = malformed \cup
                 (IF class \in {"nojson", "badjson"} THEN Range(batch) ELSE {})
    /\ EndBatch
    /\ slept' = IF attempt = 0 THEN <<>> ELSE slept
    /\ requests' = requests + 1
    /\ UNCHANGED <<api_key, args, locals, i, returned, raised, batches, paced,
                   results_before, failed, called>>

\* After the inner loop: the pacing sleep, then the next batch or the end of
\* the outer loop.
BatchEnd ==
    /\ pc = "batch_end"
    /\ IF ShouldPace(batch_num, total_batches)
       THEN /\ \E jitter \in Jitters(PacingJitterSpan) :
                   slept' = <<[kind |-> "pacing", seconds |-> PacingWait(jitter)]>>
            /\ paced' = Append(paced, batch_num)
       ELSE slept' = <<>> /\ UNCHANGED paced
    /\ IF i + size < Len(relevant_domains)
       THEN /\ pc' = "attempt"
            /\ i' = i + size
            /\ attempt' = 0
            /\ trace' = <<>>
            /\ results_before' = results
            /\ batches' = Append(batches, BatchAt(relevant_domains, i + size, size))
       ELSE /\ pc' = "finish"
            /\ trace' = <<>>
            /\ UNCHANGED <<i, attempt, results_before, batches>>
    /\ failed' = failed \cup
           (IF Last(trace).class # "json" THEN Range(batch) ELSE {})
    /\ UNCHANGED <<api_key, args, locals, results, returned, raised, parsed,
                   cleared, malformed, meters, called>>

\* Whether the running call entered through BrandProtectionAgent.
ByAgent == "domains_file" \in DOMAIN args[1]

\* The orchestrator after the LLM client returned: process, persist, return.
\* `saved` tells whether ResultsProcessor.save_results could write its files.
Finish(saved) ==
    /\ pc = "finish"
    /\ ByAgent
    /\ LET result == process_results(relevant_domains, results, brand_config[1],
                                     args[1].batch_size)
       IN IF Truthy(args[1].output_path) /\ ~saved
          THEN pc' = "raised" /\ raised' = "OSError" /\ UNCHANGED returned
          ELSE pc' = "returned" /\ returned' = <<result>> /\ UNCHANGED raised
    /\ called' = called \cup {"process_results"}
           \cup (IF Truthy(args[1].output_path) THEN {"save_results"} ELSE {})
    /\ UNCHANGED <<api_key, args, locals, i, attempt, results, trace, slept,
                   batches, paced, results_before, history, meters>>

\* GeminiAnalyzer.analyze_domains called directly, up to the first generation
\* request; brand_config only feeds the prompt.
ClientAnalyzeDomains(domains, batch_size) ==
    /\ pc = "idle"
    /\ args' = <<[domains |-> domains, batch_size |-> batch_size]>>
    /\ IF ~is_configured(api_key)
       THEN /\ pc' = "client_returned"
            /\ returned' = <<EmptyDict>>
            /\ UNCHANGED <<relevant_domains, size, total_batches, batches>>
       ELSE /\ relevant_domains' = domains
            /\ size' = EffectiveBatchSize(batch_size)
            /\ total_batches' = TotalBatches(Len(domains), EffectiveBatchSize(batch_size))
            /\ IF domains = <<>>
               THEN pc' = "finish" /\ UNCHANGED batches
               ELSE /\ pc' = "attempt"
                    /\ batches' = <<BatchAt(domains, 0, EffectiveBatchSize(batch_size))>>
            /\ UNCHANGED returned
    /\ UNCHANGED <<api_key, brand_config, keyword, raised, i, attempt, results,
                   trace, slept, paced, results_before, history, meters, called>>

\* `return results` of a direct call of GeminiAnalyzer.analyze_domains.
ClientReturn ==
    /\ pc = "finish"
    /\ ~ByAgent
    /\ pc' = "client_returned"
    /\ returned' = <<results>>
    /\ UNCHANGED <<api_key, args, locals, i, attempt, results, raised, trace,
                   slept, batches, paced, results_before, history, meters, called>>

\* A direct call of a function that returns at once: its arguments and its
\* value are kept, nothing else changes.
Direct(kind, arguments, value) ==
    /\ pc = "idle"
    /\ pc' = kind
    /\ args' = <<arguments>>
    /\ returned' = <<value>>
    /\ UNCHANGED <<api_key, locals, i, attempt, results, raised, trace, slept,
                   batches, paced, results_before, history, meters, called>>

\* DomainLoader.filter_full_word_matches called directly.
FilterCall ==
    /\ pc = "idle"
    /\ \E domains \in FilterDomains, kw \in FilterKeywords :
           Direct("filtered", [domains |-> domains, keyword |-> kw],
                  filter_full_word_matches(domains, kw))

\* GeminiAnalyzer._parse_response called directly.
ParseCall ==
    /\ pc = "idle"
    /\ \E text \in ParsedTexts, batch_domains \in ParsedBatches :
           Direct("parsed", [response |-> text, batch_domains |-> batch_domains],
                  parse_response(text, batch_domains))

\* BrandProtectionConfig.get_brand_config called directly.
ConfigCall ==
    /\ pc = "idle"
    /\ \E brand_name \in BrandNames, company_name \in ConfigCompanyNames,
          industry \in ConfigIndustries, description \in ConfigDescriptions :
           Direct("configured",
                  [brand_name |-> brand_name, company_name |-> company_name,
                   industry |-> industry, description |-> description],
                  get_brand_config(brand_name, company_name, industry, description))

\* ResultsProcessor.process_results called directly.
ProcessCall ==
    /\ pc = "idle"
    /\ \E domains \in ProcessedDomains, llm_results \in ProcessedResults :
           Direct("processed", [domains |-> domains, llm_results |-> llm_results],
                  process_results(domains, llm_results,
                      create_dynamic_brand_config(<<"T","u","i">>, None, None, None),
                      [int |-> TRUE, val |-> 2]))

\* A call of BrandProtectionAgent.analyze_domains with any arguments, on any
\* input file.
Call ==
    /\ pc = "idle"
    /\ \E domains_file \in DomainFiles, lines \in FileContents,
          brand_name \in BrandNames, company_name \in CompanyNames,
          industry \in Industries, description \in Descriptions,
          output_path \in OutputPaths, batch_size \in BatchSizes :
            AgentAnalyzeDomains(domains_file, lines, brand_name, company_name,
                                industry, description, output_path, batch_size)

\* A generation request answered by a response with text.
Respond ==
    pc = "attempt" /\ \E text \in ResponseTexts, usage \in Usages : AttemptText(text, usage)

\* A generation request that raises.
Fail == pc = "attempt" /\ \E error_msg \in ErrorMessages : AttemptRaises(error_msg)

Return == pc = "finish" /\ \E saved \in BOOLEAN : Finish(saved)

\* A direct call of the LLM client.
ClientCall ==
    /\ pc = "idle"
    /\ \E domains \in ClientDomains, batch_size \in BatchSizes :
           ClientAnalyzeDomains(domains, batch_size)

Next ==
    \/ Call
    \/ Respond
    \/ AttemptNoText
    \/ Fail
    \/ BatchEnd
    \/ Return
    \/ ClientCall
    \/ ClientReturn
    \/ FilterCall
    \/ ParseCall
    \/ ConfigCall
    \/ ProcessCall

Spec == Init /\ [][Next]_vars

\* The program is sequential and every statement completes (a request
\* returns or raises, a sleep ends), so a step that can be taken is taken.
FairSpec == Spec /\ WF_vars(Next)

(* ------------------------------ claims -------------------------------- *)

\* The call returned after the LLM client ran (not by the short circuit).
Classified == pc = "returned" /\ batches # <<>>

DomainsOf(analyses) == {analyses[k].domain : k \in 1..Len(analyses)}

DomainSeq(analyses) == [k \in 1..Len(analyses) |-> analyses[k].domain]

\* C1: once analyze_domains has returned, whatever the service answered,
\* the domains of threats and the domains of filtered are disjoint and
\* together are exactly the keyword-filtered input domains.
C1_EveryDomainInOnePartition ==
    pc = "returned" =>
        LET result == returned[1]
        IN /\ DomainsOf(result.threats) \cap DomainsOf(result.filtered) = {}
           /\ DomainsOf(result.threats) \cup DomainsOf(result.filtered)
                  = Range(relevant_domains)

\* C1 witness: a returned result with both partitions populated, one of its
\* domains never having received a verdict.
C1_Witness ==
    /\ Classified
    /\ returned[1].threats # <<>>
    /\ returned[1].filtered # <<>>
    /\ \E d \in Range(relevant_domains) : d \notin DOMAIN results

\* Whether process_results is to class a domain as a threat.
JudgedThreat(d) == IF d \in DOMAIN results THEN results[d].relevant ELSE TRUE

\* C8: process_results yields one ThreatAnalysis per input occurrence: the
\* partitions' lengths add up to the input's, the metadata counts are the
\* partitions' lengths, and each partition lists its domains in input order.
C8_OneAnalysisPerOccurrence ==
    Classified =>
        LET result == returned[1]
        IN /\ Len(result.threats) + Len(result.filtered) = Len(relevant_domains)
           /\ result.metadata.threat_count = Len(result.threats)
           /\ result.metadata.filtered_count = Len(result.filtered)
           /\ result.metadata.total_domains = Len(relevant_domains)
           /\ DomainSeq(result.threats)
                  = SelectSeq(relevant_domains, LAMBDA d : JudgedThreat(d))
           /\ DomainSeq(result.filtered)
                  = SelectSeq(relevant_domains, LAMBDA d : ~JudgedThreat(d))
           /\ \A k \in 1..Len(result.threats) : result.threats[k].is_threat
           /\ \A k \in 1..Len(result.filtered) : ~result.filtered[k].is_threat

\* C8 witness: a partial verdict mapping, and a partition of two different
\* domains, whose order shows.
C8_Witness ==
    /\ Classified
    /\ DOMAIN results # {}
    /\ \E d \in Range(relevant_domains) : d \notin DOMAIN results
    /\ Len(returned[1].threats) = 2
    /\ returned[1].threats[1].domain # returned[1].threats[2].domain

S_ApiOverloadedAfter3Retries ==
    <<"A","P","I"," ","o","v","e","r","l","o","a","d","e","d"," ","a","f","t","e","r"," ",
      "3"," ","r","e","t","r","i","e","s">>

\* Every attempt of the current batch so far raised an overload-indicating
\* error.
AlwaysOverloaded == \A k \in 1..Len(trace) : trace[k].class = "overloaded"

FallbackQuoting(verdict, d, text) ==
    /\ verdict.domain = d
    /\ verdict.relevant
    /\ verdict.confidence = 50
    /\ verdict.risk_level = S_medium
    /\ Contains(verdict.reason, text)

C3_State ==
    \A k \in 1..Len(trace) :
        trace[k].class = "failed" =>
            /\ k = Len(trace)
            /\ pc = "batch_end"
            /\ \A d \in Range(batch) :
                   d \in DOMAIN results /\ FallbackQuoting(results[d], d, trace[k].text)

C3_Step ==
    (pc = "batch_end" /\ Last(trace).class = "failed") =>
        IF i + size < Len(relevant_domains)
        THEN pc' = "attempt" /\ i' = i + size /\ attempt' = 0 /\ trace' = <<>>
        ELSE pc' = "finish"

\* C3: an attempt that raises an error indicating no overload is the last
\* attempt of its batch (so the only one when it is the first); every domain
\* of the batch then holds the fallback verdict {relevant, 0.5, medium} with
\* a reason that contains the raised text, and the next step takes up the
\* next batch (or ends the run after the last one).
C3_OtherErrorFallsBackAtOnce == []C3_State /\ [][C3_Step]_vars

\* C3 witness: the second batch is under way after the first one met a
\* non-overload error on its first attempt.
C3_Witness ==
    /\ pc = "attempt"
    /\ Len(batches) = 2
    /\ \A d \in Range(batches[1]) :
           d \in DOMAIN results /\ Contains(results[d].reason, S_ApiError)

\* The verdicts a parsed response leaves: every domain of the batch has one
\* of its own, the no-threat verdict or a threat verdict.
Succeeded ==
    /\ Last(trace).class = "json"
    /\ \A d \in Range(batch) :
           /\ d \in DOMAIN results
           /\ results[d].domain = d
           /\ results[d].relevant \/ results[d] = NoThreatVerdict(d)

\* Every domain of the batch holds a conservative fallback verdict, written
\* when the batch's last attempt raised.
Exhausted ==
    /\ Last(trace).class \in {"overloaded", "failed"}
    /\ \A d \in Range(batch) :
           /\ d \in DOMAIN results
           /\ FallbackQuoting(results[d], d, <<>>)
           /\ \/ results[d].reason = S_ApiOverloadedAfter3Retries
              \/ SubSeq(results[d].reason, 1, Len(S_ApiError)) = S_ApiError

\* The batch wrote no verdict at all.
Unverdicted ==
    /\ \/ Last(trace).class \in {"nojson", "badjson", "badshape"}
       \/ Last(trace).class = "notext" /\ Len(trace) = 3
    /\ results = results_before

\* C4, as claimed: every batch ends succeeded or exhausted-with-fallback,
\* whatever the service returned or raised on each attempt.
C4_TwoTerminalStates == pc = "batch_end" => (Succeeded \/ Exhausted)

\* C4, amended: every batch ends succeeded, exhausted-with-fallback or
\* unverdicted (no verdict written: the response text was malformed, held no
\* JSON object or one whose handling raised, or the third attempt, too, got
\* a response without text); which of the three follows from what the last
\* attempt met.
C4_ThreeTerminalStates ==
    pc = "batch_end" =>
        /\ Succeeded \/ Exhausted \/ Unverdicted
        /\ Last(trace).class = "json" => Succeeded
        /\ Last(trace).class = "failed" => Exhausted
        /\ Last(trace).class = "overloaded" => (Exhausted /\ Len(trace) = 3)
        /\ Last(trace).class \in {"notext", "nojson", "badjson", "badshape"}
               => Unverdicted

\* C4 witness: a batch ended by a third overload error after a response
\* without text, its domains holding the fallback.
C4_Witness ==
    /\ pc = "batch_end"
    /\ Len(trace) = 3
    /\ \E k \in 1..2 : trace[k].class = "notext"
    /\ Exhausted

\* The analyses of the result that are about domain d.
AnalysesOf(result, d) ==
    {result.threats[k] : k \in {j \in 1..Len(result.threats) : result.threats[j].domain = d}}
        \cup {result.filtered[k] :
                 k \in {j \in 1..Len(result.filtered) : result.filtered[j].domain = d}}

ThreatMediumHalf(analysis) ==
    /\ analysis.is_threat
    /\ analysis.risk_level = S_medium
    /\ analysis.confidence = 50

\* C5, as claimed: every domain of a batch that ended without a parsed
\* response is a threat of medium risk and confidence 0.5 in the final
\* result, a domain being in filtered only if a parsed response cleared it.
C5_FailureMeansThreat ==
    Classified =>
        /\ \A d \in failed : \A a \in AnalysesOf(returned[1], d) : ThreatMediumHalf(a)
        /\ DomainsOf(returned[1].filtered) \subseteq cleared

\* C5, amended: a domain is in filtered only if a parsed response of a batch
\* containing it did not name it; and a domain none of whose batches got a
\* parsed response is a threat of medium risk and confidence 0.5.
C5_FilteredOnlyWhenCleared ==
    Classified =>
        /\ DomainsOf(returned[1].filtered) \subseteq cleared
        /\ \A d \in Range(relevant_domains) \ parsed :
               /\ AnalysesOf(returned[1], d) # {}
               /\ \A a \in AnalysesOf(returned[1], d) : ThreatMediumHalf(a)

\* C5 witness: a result with a filtered domain and a domain whose batch
\* never got a parsed response.
C5_Witness ==
    /\ Classified
    /\ returned[1].filtered # <<>>
    /\ Range(relevant_domains) \ parsed # {}

Loadable(file) == file.direct = "ok" \/ (file.direct = "missing" /\ file.data = "ok")

\* C6, as claimed: the call raises only without a credential or when the
\* input file is at neither location.
C6_TwoFatalCauses ==
    pc = "raised" =>
        \/ ~is_configured(api_key)
        \/ args[1].domains_file.direct = "missing" /\ args[1].domains_file.data = "missing"

\* C6, amended: the call raises only without a credential, without a brand
\* name, when the input file cannot be loaded (at neither location, or found
\* and unreadable), or when the results cannot be written to the output path;
\* for every batch_size and every service behaviour it returns a result.
C6_FatalCauses ==
    /\ pc = "raised" =>
           \/ ~is_configured(api_key)
           \/ args[1].brand_name \in {None, <<>>}
           \/ ~Loadable(args[1].domains_file)
           \/ /\ raised = "OSError"
              /\ args[1].output_path \notin {None, <<>>}
              /\ batches # <<>>
    /\ pc = "returned" =>
           /\ Len(returned) = 1
           /\ returned[1].metadata.batch_size = args[1].batch_size
           /\ returned[1].metadata.total_domains = Len(relevant_domains)

\* C6 witness: a result returned for an invalid batch_size after the service
\* failed on every batch, the file having been found under data/.
C6_Witness ==
    /\ Classified
    /\ args[1].batch_size.val <= 0
    /\ args[1].domains_file.direct = "missing"
    /\ parsed = {}

S_LLMEvaluationUnavailable ==
    <<"L","L","M"," ","e","v","a","l","u","a","t","i","o","n"," ",
      "u","n","a","v","a","i","l","a","b","l","e">>

\* C7: a response text that is malformed or holds no JSON object ends its
\* batch without a further attempt and without writing a verdict; a domain
\* that no batch gave a verdict is then given {is_threat, 0.5, "LLM
\* evaluation unavailable", medium} by process_results.
C7_MalformedLeftToDefault ==
    /\ \A k \in 1..Len(trace) :
           trace[k].class \in {"nojson", "badjson"} =>
               k = Len(trace) /\ pc = "batch_end" /\ results = results_before
    /\ Classified =>
           \A d \in Range(relevant_domains) \ DOMAIN results :
               /\ AnalysesOf(returned[1], d) # {}
               /\ \A a \in AnalysesOf(returned[1], d) :
                      /\ a.is_threat
                      /\ a.confidence = 50
                      /\ a.reason = S_LLMEvaluationUnavailable
                      /\ a.risk_level = S_medium

\* C7 witness: a returned result with a domain of a malformed batch that no
\* batch gave a verdict.
C7_Witness ==
    /\ Classified
    /\ malformed \ DOMAIN results # {}

RECURSIVE Flatten(_)
Flatten(seqs) == IF seqs = <<>> THEN <<>> ELSE Head(seqs) \o Flatten(Tail(seqs))

Min(a, b) == IF a < b THEN a ELSE b

\* The batch size the claim prescribes for a batch_size argument.
ClaimedBatchSize(batch_size) ==
    IF batch_size.int /\ batch_size.val > 0 THEN batch_size.val ELSE 200

\* C9: the batches are the consecutive slices of the domain sequence of the
\* effective batch size (the argument, or 200 when it is no positive
\* integer), the last possibly shorter, taken up in input order one at a
\* time; once the loop is over they cover every position exactly once.
C9_ContiguousBatches ==
    batches # <<>> =>
        LET n == Len(relevant_domains)
            effective == ClaimedBatchSize(args[1].batch_size)
        IN /\ size = effective
           /\ \A k \in 1..Len(batches) :
                  /\ batches[k] = SubSeq(relevant_domains, (k - 1) * effective + 1,
                                         Min(k * effective, n))
                  /\ Len(batches[k]) >= 1
                  /\ k < Len(batches) => Len(batches[k]) = effective
           /\ pc \in {"attempt", "batch_end"} =>
                  batch = batches[Len(batches)] /\ batch_num = Len(batches)
           /\ pc \in {"finish", "returned", "raised"} =>
                  Flatten(batches) = relevant_domains

\* C9 witness: the loop is over after two batches of one domain each.
C9_Witness ==
    /\ pc = "finish"
    /\ Len(batches) = 2
    /\ relevant_domains[1] # relevant_domains[2]

\* C10: the pacing sleeps so far followed the batches 1, 2, ... up to the one
\* before the current batch, whatever each met, so a run over k batches ends
\* with k-1 of them and none after the last; each lasts 15 seconds plus a
\* jitter in [0, 3), and is the one sleep between a batch and the next.
C10_PacingBetweenBatches ==
    /\ batches # <<>> => paced = [k \in 1..(Len(batches) - 1) |-> k]
    /\ pc \in {"finish", "returned", "raised"} /\ batches # <<>> =>
           /\ Len(paced) = total_batches - 1
           /\ Flatten(batches) = relevant_domains
           /\ slept = <<>>
    /\ pc = "attempt" /\ attempt = 0 /\ Len(batches) > 1 =>
           /\ Len(slept) = 1
           /\ slept[1].kind = "pacing"
           /\ 15 <= slept[1].seconds /\ slept[1].seconds < 18
    /\ \A k \in 1..Len(slept) : slept[k].kind = "pacing" => Len(slept) = 1

\* C10 witness: a run over two batches is over with one pacing sleep, the
\* first batch having ended without a parsed response.
C10_Witness ==
    /\ pc = "finish"
    /\ Len(batches) = 2
    /\ paced = <<1>>
    /\ Range(batches[1]) \subseteq failed

\* No credential is held: the api key is absent or blank.
NoCredential == api_key = None \/ \A k \in 1..Len(api_key) : IsSpace(api_key[k])

\* C11: without a credential no generation request is ever issued: a direct
\* call of the LLM client returns an empty mapping without taking up a batch,
\* and the orchestrator raises before it builds the brand config, reads the
\* domain file or invokes the LLM client.
C11_NoCredentialNoRequest ==
    NoCredential =>
        /\ requests = 0
        /\ batches = <<>>
        /\ token_counters = [input |-> 0, output |-> 0, total |-> 0]
        /\ pc \notin {"attempt", "batch_end", "finish", "returned"}
        /\ pc = "client_returned" => returned = <<EmptyDict>>
        /\ pc = "raised" =>
               /\ called = {}
               /\ brand_config = <<>>
               /\ relevant_domains = <<>>

\* C11 witness: the LLM client, holding a blank key, has returned from a
\* direct call with domains to analyse.
C11_Witness ==
    /\ pc = "client_returned"
    /\ api_key = <<" ">>
    /\ args[1].domains # <<>>

\* C12: when the keyword filter returns no domain, the orchestrator returns
\* the empty result (all three counts 0, false_positive_reduction "0.0%", no
\* threats, no filtered) and does no downstream work: no generation request,
\* token counters as they were, no call of the LLM client, of the results
\* processor or of save_results, even with an output path.
C12_EmptyShortCircuits ==
    pc = "returned" /\ relevant_domains = <<>> =>
        /\ returned[1].metadata.total_domains = 0
        /\ returned[1].metadata.threat_count = 0
        /\ returned[1].metadata.filtered_count = 0
        /\ returned[1].metadata.false_positive_reduction = <<"0", ".", "0", "%">>
        /\ returned[1].threats = <<>>
        /\ returned[1].filtered = <<>>
        /\ requests = 0
        /\ token_counters = [input |-> 0, output |-> 0, total |-> 0]
        /\ called \cap {"GeminiAnalyzer.analyze_domains", "process_results",
                        "save_results"} = {}

\* C12 witness: the short circuit taken by a call that was given an output
\* path.
C12_Witness ==
    /\ pc = "returned"
    /\ relevant_domains = <<>>
    /\ "filter_full_word_matches" \in called
    /\ args[1].output_path = <<"o">>

C14_OneVerdictPerBatchDomain ==
    pc = "parsed" /\ TextClass(args[1].response, args[1].batch_domains) = "json" =>
        LET verdicts == returned[1]
            named == Named(args[1].response)
        IN /\ DOMAIN verdicts = Range(args[1].batch_domains)
           /\ \A d \in Range(args[1].batch_domains) :
                  /\ verdicts[d].domain = d
                  /\ d \notin named =>
                         /\ verdicts[d].relevant = FALSE
                         /\ verdicts[d].confidence = 95
                         /\ verdicts[d].reason =
                                <<"N","o"," ","t","h","r","e","a","t"," ",
                                  "d","e","t","e","c","t","e","d">>
                         /\ verdicts[d].risk_level = <<"l","o","w">>
                  /\ d \in named => verdicts[d].relevant = TRUE

\* C14 witness: a parsed response that names one domain of a batch of two
\* domains and one domain outside of it.
C14_Witness ==
    /\ pc = "parsed"
    /\ TextClass(args[1].response, args[1].batch_domains) = "json"
    /\ Cardinality(Range(args[1].batch_domains)) = 2
    /\ Cardinality(Named(args[1].response) \cap Range(args[1].batch_domains)) = 1
    /\ Cardinality(Named(args[1].response) \ Range(args[1].batch_domains)) = 1
    /\ Cardinality(DOMAIN returned[1]) = 2

\* C15: every ThreatAnalysis of the final result has a risk_level that is
\* "low", "medium" or "high", whatever the service returned.
C15_RiskLevelInEnum ==
    pc = "returned" =>
        \A d \in Range(relevant_domains) : \A a \in AnalysesOf(returned[1], d) :
            a.risk_level \in {<<"l","o","w">>, <<"m","e","d","i","u","m">>,
                              <<"h","i","g","h">>}

\* C15 witness: a result holding a threat whose risk_level is "critical", as
\* lower-cased from the response.
C15_Witness ==
    /\ Classified
    /\ \E k \in 1..Len(returned[1].threats) :
           returned[1].threats[k].risk_level = <<"c","r","i","t","i","c","a","l">>

\* The input domain sequence of the call that built the returned result.
InputDomains == IF pc = "processed" THEN args[1].domains ELSE relevant_domains

Abs(n) == IF n < 0 THEN -n ELSE n

\* The tenths of a percent nearest to filtered_count / total * 100.
NearestTenths(filtered_count, total) ==
    {t \in 0..1000 : 2 * Abs(filtered_count * 1000 - t * total) <= total}

\* Tenths of a percent written with one decimal place and "%".
OneDecimalPct(t) == StrNat(t \div 10) \o <<".", Digit(t % 10), "%">>

\* C16: false_positive_reduction is "0.0%" for an empty input sequence, and
\* otherwise filtered_count / total_domains * 100 rounded to one decimal
\* place followed by "%": "0.0%" when nothing is filtered, "100.0%" when
\* everything is.
C16_FalsePositiveReduction ==
    pc \in {"processed", "returned"} =>
        LET md == returned[1].metadata
        IN /\ md.total_domains = Len(InputDomains)
           /\ md.filtered_count = Len(returned[1].filtered)
           /\ InputDomains = <<>> =>
                  md.false_positive_reduction = <<"0", ".", "0", "%">>
           /\ InputDomains # <<>> =>
                  /\ md.false_positive_reduction \in
                         {OneDecimalPct(t) :
                             t \in NearestTenths(md.filtered_count, md.total_domains)}
                  /\ md.filtered_count = 0 =>
                         md.false_positive_reduction = <<"0", ".", "0", "%">>
                  /\ md.filtered_count = md.total_domains =>
                         md.false_positive_reduction = <<"1", "0", "0", ".", "0", "%">>

\* C16 witness: two of three domains are filtered, which rounds up to
\* "66.7%".
C16_Witness ==
    /\ pc = "processed"
    /\ Len(args[1].domains) = 3
    /\ returned[1].metadata.filtered_count = 2
    /\ returned[1].metadata.false_positive_reduction = <<"6", "6", ".", "7", "%">>

\* C17: the keyword in the metadata of the result the orchestrator returns
\* is the brand keyword the domains were pre-filtered with (letter case
\* aside, the filter ignoring the keyword's), on the short-circuit path and
\* on the classified path, whatever company name was given.
C17_MetadataKeywordIsFilterKeyword ==
    pc = "returned" => Lower(returned[1].metadata.keyword) = Lower(keyword)

\* C17 witness: a classified result whose metadata names the lower-cased
\* company name as keyword, the domains having been filtered by the brand
\* name.
C17_Witness ==
    /\ Classified
    /\ keyword = <<"T","u","i">>
    /\ returned[1].metadata.keyword = <<"a","b">>
    /\ \A k \in 1..Len(relevant_domains) :
           Contains(relevant_domains[k], <<"t","u","i">>)

\* The company name the configuration is to be built for: the one given, or
\* the brand name when none was.
ResolvedCompany(call) ==
    IF call.company_name \in {None, <<>>} THEN call.brand_name ELSE call.company_name

StartsWith(text, prefix) ==
    Len(text) >= Len(prefix) /\ SubSeq(text, 1, Len(prefix)) = prefix

\* C18: get_brand_config with a non-empty brand name defaults every absent
\* optional field: industry to "Business", company name to the brand name,
\* description to a generated text that names the resolved company; name is
\* the upper-cased resolved company name.
C18_ConfigDefaults ==
    pc = "configured" /\ args[1].brand_name \notin {None, <<>>} =>
        /\ Len(returned[1]) = 1
        /\ LET config == returned[1][1]
               company == ResolvedCompany(args[1])
           IN /\ config.name = Upper(company)
              /\ config.industry =
                     IF args[1].industry \in {None, <<>>}
                     THEN <<"B","u","s","i","n","e","s","s">>
                     ELSE args[1].industry
              /\ IF args[1].description \in {None, <<>>}
                 THEN StartsWith(config.description, company)
                 ELSE config.description = args[1].description

\* C18 witness: a configuration built from a brand name alone, whose
\* generated description begins with "None".
C18_Witness ==
    /\ pc = "configured"
    /\ args[1].brand_name = <<"T","u","i">>
    /\ args[1].company_name = None
    /\ args[1].description = None
    /\ returned[1][1].name = <<"T","U","I">>
    /\ SubSeq(returned[1][1].description, 1, 4) = <<"N","o","n","e">>

\* The backoff sleeps among the sleeps recorded for the current batch.
Backoffs(sleeps) == {k \in 1..Len(sleeps) : sleeps[k].kind = "backoff"}

C19_State ==
    /\ Len(trace) <= 3
    /\ pc = "batch_end" => Len(trace) >= 1
    /\ requests <= 3 * Len(batches)
    /\ pc \in {"attempt", "batch_end"} =>
           /\ requests >= Len(batches) - 1 + Len(trace)
           /\ Cardinality(Backoffs(slept)) =
                  Cardinality({k \in 1..Len(trace) :
                                  k <= 2 /\ trace[k].class = "overloaded"})
    /\ pc \in {"finish", "client_returned"} /\ ~NoCredential =>
           /\ Len(batches) = total_batches
           /\ requests >= total_batches
           /\ requests <= 3 * total_batches

\* A step that sleeps for a backoff is the first or second attempt of a
\* batch meeting an overload error.
C19_Step ==
    Cardinality(Backoffs(slept')) > Cardinality(Backoffs(slept)) =>
        /\ pc = "attempt"
        /\ attempt \in {0, 1}
        /\ Last(trace').class = "overloaded"
        /\ requests' = requests + 1

\* C19: GeminiAnalyzer.analyze_domains terminates whatever the service does:
\* once its loop is entered it is left; each batch issues at least 1 and at
\* most 3 generation requests, a run over k batches at most 3*k; and a
\* backoff sleep happens only after an overload error on the first or second
\* attempt of a batch.
C19_BoundedAttempts ==
    /\ []C19_State
    /\ [][C19_Step]_vars
    /\ (pc = "attempt") ~> (pc = "finish")

\* C19 witness: a run over two batches is over after six generation
\* requests.
C19_Witness ==
    /\ pc = "finish"
    /\ total_batches = 2
    /\ requests = 6

\* The verdict the batch that just ended wrote for its domain d, if it
\* wrote any: that of its parsed response, or its fallback.
WrittenByThisBatch(d) ==
    IF Last(trace).class = "json"
    THEN IF d \in Last(trace).named
         THEN results[d].relevant = TRUE
         ELSE /\ results[d].relevant = FALSE
              /\ results[d].confidence = 95
              /\ results[d].risk_level = <<"l","o","w">>
    ELSE /\ results[d].relevant = TRUE
         /\ results[d].confidence = 50
         /\ results[d].risk_level = <<"m","e","d","i","u","m">>
         /\ \/ results[d].reason = S_ApiOverloadedAfter3Retries
            \/ StartsWith(results[d].reason, <<"A","P","I"," ","e","r","r","o","r",":"," ">>)

\* The batch that just ended produced verdicts.
ProducedVerdicts ==
    \/ Last(trace).class \in {"json", "failed"}
    \/ Last(trace).class = "overloaded" /\ Len(trace) = 3

\* C20: the verdict mapping holds one verdict per domain string, the one of
\* the last batch that produced a verdict for it: a batch that succeeds or
\* falls back overwrites the verdicts of its domains and leaves the others,
\* a batch that produces no verdict leaves the mapping as it was; and all
\* occurrences of a domain string land in the same partition of the result,
\* with that verdict.
C20_LastVerdictWins ==
    /\ pc = "batch_end" =>
           IF ProducedVerdicts
           THEN /\ DOMAIN results = DOMAIN results_before \cup Range(batch)
                /\ \A d \in Range(batch) : WrittenByThisBatch(d)
                /\ \A d \in DOMAIN results \ Range(batch) :
                       results[d] = results_before[d]
           ELSE results = results_before
    /\ Classified =>
           \A d \in Range(relevant_domains) :
               LET occurrences == {k \in 1..Len(relevant_domains) : relevant_domains[k] = d}
                   partition == IF JudgedThreat(d) THEN returned[1].threats
                                ELSE returned[1].filtered
               IN /\ Cardinality({k \in 1..Len(partition) : partition[k].domain = d})
                         = Cardinality(occurrences)
                  /\ Cardinality(AnalysesOf(returned[1], d)) = 1
                  /\ d \in DOMAIN results =>
                         \A a \in AnalysesOf(returned[1], d) :
                             /\ a.confidence = results[d].confidence
                             /\ a.risk_level = results[d].risk_level
                             /\ a.reason = results[d].reason

\* C20 witness: the second batch holds the same domain as the first and its
\* parsed response has just replaced the first batch's fallback verdict.
C20_Witness ==
    /\ pc = "batch_end"
    /\ Len(batches) = 2
    /\ batches[1] = batches[2]
    /\ Last(trace).class = "json"
    /\ \E d \in Range(batch) :
           /\ d \in DOMAIN results_before
           /\ results_before[d].relevant
           /\ results_before[d].confidence = 50
           /\ ~results[d].relevant

====
